---- MODULE Spec2Model ----
(***************************************************************************)
(* Model of crates/emath/src/easing.rs: the Easing catalog (enum, the      *)
(* usize conversion, the apply/inverse dispatch tables, reversible), the   *)
(* Easings cursor, and the curve evaluators; and of                        *)
(* crates/egui_extras/src/image.rs: RetainedImage and its lazy upload.     *)
(***************************************************************************)
EXTENDS Integers, Sequences, FiniteSets, TLC

VARIABLES cursors, yielded, last, call,
          retained, textures, locks, threads, shown

\* The state of the RetainedImage, of the egui context it uploads to, and of
\* the threads that share it.
imageVars == <<retained, textures, locks, threads, shown>>

vars == <<cursors, yielded, last, call, imageVars>>

---------------------------------------------------------------------------
(* Bounds of the model.                                                    *)

\* Number of Easings cursors that may be constructed.
NCursors == 2

\* Largest usize handed to Easing::from.
MaxOrdinal == 33

\* The arguments handed to the evaluators are k / TSteps, k = 0 .. TSteps.
TSteps == 20

\* Two values the code reaches by different routes are compared up to this
\* many units of the f64 model's grid (1e-6 each): every route rounds a
\* handful of times.
RoundingUlps == 4

\* The arguments of a round trip inverse(apply(t)) are k / TripSteps,
\* k = 0 .. TripSteps, and 0.5.
TripSteps == 10

\* Number of threads that share the RetainedImage.
NThreads == 2

\* Largest width and height of the image a RetainedImage is built from.
MaxSide == 2

\* Number of textures the context may be asked for: with_options is not
\* called any more once this many were uploaded.
MaxUploads == 2

\* The tolerance of the crate's approximate comparisons, 1.0e-6, in units
\* of the grid.
Eps == 1

---------------------------------------------------------------------------
(* enum Easing, #[repr(usize)]: the variants in declaration order; the     *)
(* discriminant of a variant (`as usize`) is its position, from 0.         *)

EasingDecl ==
  << "SineIn", "SineOut", "SineInOut",
     "QuadIn", "QuadOut", "QuadInOut",
     "CubicIn", "CubicOut", "CubicInOut",
     "QuartIn", "QuartOut", "QuartInOut",
     "QuintIn", "QuintOut", "QuintInOut",
     "ExpoIn", "ExpoOut", "ExpoInOut",
     "CircIn", "CircOut", "CircInOut",
     "BackIn", "BackOut", "BackInOut",
     "ElasticIn", "ElasticOut", "ElasticInOut",
     "BounceIn", "BounceOut", "BounceInOut",
     "Max" >>

\* Every value of type Easing.
EasingValues == { EasingDecl[k] : k \in 1..Len(EasingDecl) }

\* The 30 curves: every value but the sentinel.
Curves == EasingValues \ {"Max"}

\* `e as usize`
AsUsize(e) == (CHOOSE k \in 1..Len(EasingDecl) : EasingDecl[k] = e) - 1

\* The families, in the order their variants are declared (three each: In,
\* Out, InOut), and the family and phase of a variant.
Families ==
  << "Sine", "Quad", "Cubic", "Quart", "Quint", "Expo", "Circ",
     "Back", "Elastic", "Bounce" >>
Phases == << "In", "Out", "InOut" >>
Family(e) == IF e = "Max" THEN "none" ELSE Families[(AsUsize(e) \div 3) + 1]
Phase(e) == IF e = "Max" THEN "none" ELSE Phases[(AsUsize(e) % 3) + 1]

\* A mutation of From: out-of-range values wrap around to the catalog.
FromWrapping(value) == EasingDecl[(value % 30) + 1]

\* A mutation of From: two arms of the match swapped.
FromSwapped(value) ==
  CASE value = 0 -> "SineIn"
    [] value = 1 -> "SineInOut"
    [] value = 2 -> "SineOut"
    [] value \in 3..29 -> EasingDecl[value + 1]
    [] OTHER -> "Max"

\* impl From<usize> for Easing
From(value) ==
  CASE value = 0 -> "SineIn"
    [] value = 1 -> "SineOut"
    [] value = 2 -> "SineInOut"
    [] value = 3 -> "QuadIn"
    [] value = 4 -> "QuadOut"
    [] value = 5 -> "QuadInOut"
    [] value = 6 -> "CubicIn"
    [] value = 7 -> "CubicOut"
    [] value = 8 -> "CubicInOut"
    [] value = 9 -> "QuartIn"
    [] value = 10 -> "QuartOut"
    [] value = 11 -> "QuartInOut"
    [] value = 12 -> "QuintIn"
    [] value = 13 -> "QuintOut"
    [] value = 14 -> "QuintInOut"
    [] value = 15 -> "ExpoIn"
    [] value = 16 -> "ExpoOut"
    [] value = 17 -> "ExpoInOut"
    [] value = 18 -> "CircIn"
    [] value = 19 -> "CircOut"
    [] value = 20 -> "CircInOut"
    [] value = 21 -> "BackIn"
    [] value = 22 -> "BackOut"
    [] value = 23 -> "BackInOut"
    [] value = 24 -> "ElasticIn"
    [] value = 25 -> "ElasticOut"
    [] value = 26 -> "ElasticInOut"
    [] value = 27 -> "BounceIn"
    [] value = 28 -> "BounceOut"
    [] value = 29 -> "BounceInOut"
    [] OTHER -> "Max"

---------------------------------------------------------------------------
(* f64.  A value x is carried as the integer nearest to x * One, and every *)
(* arithmetic operation rounds its exact result to that grid, as every f64 *)
(* operation rounds to the nearest double.  Products and quotients are     *)
(* computed in limbs of Limb so that no intermediate leaves 32 bits.       *)

One == 1000000
Limb == 1000

Abs(a) == IF a < 0 THEN -a ELSE a
Sgn(a) == IF a < 0 THEN -1 ELSE 1

\* a * b for a, b >= 0
MulMag(a, b) ==
  LET a1 == a \div Limb
      a0 == a % Limb
      b1 == b \div Limb
      b0 == b % Limb
      m  == a1 * b0 + a0 * b1
  IN  a1 * b1 + (m \div Limb) + (((m % Limb) * Limb + a0 * b0 + (One \div 2)) \div One)

\* a * b
Mul(a, b) == Sgn(a) * Sgn(b) * MulMag(Abs(a), Abs(b))

\* a / n for an integral constant n > 0
DivInt(a, n) == Sgn(a) * ((Abs(a) + (n \div 2)) \div n)

\* a / b for a >= 0, b > 0: long division, two decimal digits a step
DivMag(a, b) ==
  LET q0 == a \div b
      r0 == a % b
      q1 == (r0 * 100) \div b
      r1 == (r0 * 100) % b
      q2 == (r1 * 100) \div b
      r2 == (r1 * 100) % b
      q3 == (r2 * 100) \div b
      r3 == (r2 * 100) % b
  IN  q0 * One + q1 * 10000 + q2 * 100 + q3 + (IF 2 * r3 >= b THEN 1 ELSE 0)

\* a / b
Div(a, b) == Sgn(a) * Sgn(b) * DivMag(Abs(a), Abs(b))

\* f64::powi
RECURSIVE Powi(_, _)
Powi(a, n) == IF n = 0 THEN One ELSE Mul(Powi(a, n - 1), a)

\* std::f64::consts::PI, and PI / 2 to three more digits (HalfPiLo, in
\* thousandths of a grid step) for the argument reduction of sin and cos.
PI == 3141593
HalfPiHi == 1570796
HalfPiLo == 327

\* sin r for |r| <= PI / 4
SinSeries(r) ==
  LET r2 == Mul(r, r)
      t4 == One - DivInt(r2, 72)
      t3 == One - Mul(DivInt(r2, 42), t4)
      t2 == One - Mul(DivInt(r2, 20), t3)
      t1 == One - Mul(DivInt(r2, 6), t2)
  IN  Mul(r, t1)

\* cos r for |r| <= PI / 4
CosSeries(r) ==
  LET r2 == Mul(r, r)
      t4 == One - DivInt(r2, 90)
      t3 == One - Mul(DivInt(r2, 56), t4)
      t2 == One - Mul(DivInt(r2, 30), t3)
      t1 == One - Mul(DivInt(r2, 12), t2)
  IN  One - Mul(DivInt(r2, 2), t1)

\* The multiple of PI / 2 nearest to a, and what is left of a.
Quadrant(a) == (2 * a + HalfPiHi) \div (2 * HalfPiHi)
Reduced(a) ==
  LET k == Quadrant(a)
  IN  a - k * HalfPiHi - DivInt(k * HalfPiLo, Limb)

\* f64::sin
Sin(a) ==
  LET q == Quadrant(a) % 4
      r == Reduced(a)
  IN  CASE q = 0 -> SinSeries(r)
        [] q = 1 -> CosSeries(r)
        [] q = 2 -> -SinSeries(r)
        [] OTHER -> -CosSeries(r)

\* f64::cos
Cos(a) ==
  LET q == Quadrant(a) % 4
      r == Reduced(a)
  IN  CASE q = 0 -> CosSeries(r)
        [] q = 1 -> -SinSeries(r)
        [] q = 2 -> -CosSeries(r)
        [] OTHER -> SinSeries(r)

\* ln 2
LN2 == 693147

\* 2^f for 0 <= f < 1: exp(f ln 2) by its series to the ninth power
Exp2Frac(f) ==
  LET u  == Mul(f, LN2)
      t9 == One + DivInt(u, 9)
      t8 == One + Mul(DivInt(u, 8), t9)
      t7 == One + Mul(DivInt(u, 7), t8)
      t6 == One + Mul(DivInt(u, 6), t7)
      t5 == One + Mul(DivInt(u, 5), t6)
      t4 == One + Mul(DivInt(u, 4), t5)
      t3 == One + Mul(DivInt(u, 3), t4)
      t2 == One + Mul(DivInt(u, 2), t3)
  IN  One + Mul(u, t2)

RECURSIVE Pow2Int(_)
Pow2Int(n) == IF n = 0 THEN 1 ELSE 2 * Pow2Int(n - 1)

\* 2.0f64.powf(y)
Pow2(y) ==
  LET n == y \div One
      m == Exp2Frac(y % One)
  IN  IF n >= 0 THEN m * Pow2Int(n) ELSE DivInt(m, Pow2Int(-n))

\* a * One - r * r, for r near the square root of a * One
SqRem(r, a) ==
  LET r1 == r \div Limb
      r0 == r % Limb
      m  == 2 * r1 * r0
  IN  (a - (r1 * r1 + (m \div Limb))) * One - ((m % Limb) * Limb + r0 * r0)

\* r * r <= a * One
SqLe(r, a) ==
  LET r1 == r \div Limb
      r0 == r % Limb
      m  == 2 * r1 * r0
      lo == (m % Limb) * Limb + r0 * r0
      hi == r1 * r1 + (m \div Limb) + (lo \div One)
  IN  hi < a \/ (hi = a /\ lo % One = 0)

\* The largest r in [lo, hi) with r * r <= a * One.
RECURSIVE SqrtSearch(_, _, _)
SqrtSearch(lo, hi, a) ==
  IF hi - lo <= 1 THEN lo
  ELSE LET mid == (lo + hi) \div 2
       IN  IF SqLe(mid, a) THEN SqrtSearch(mid, hi, a) ELSE SqrtSearch(lo, mid, a)

\* f64::NAN, which no arithmetic on the grid produces: the operators that
\* can meet it test for it before they compute.
NaN == -2147483647

\* f64::sqrt (correctly rounded; NaN for a < 0)
Sqrt(a) ==
  IF a < 0 THEN NaN
  ELSE LET r == SqrtSearch(0, 46340 * Limb, a)
       IN  IF SqRem(r, a) > r THEN r + 1 ELSE r

\* Exact integers beyond 32 bits, for the comparison a root is found by: a
\* sequence of digits in base Limb, least significant first, no leading 0.
RECURSIVE Digits(_)
Digits(k) == IF k = 0 THEN << >> ELSE << k % Limb >> \o Digits(k \div Limb)

\* d * r + carry, for 0 <= r <= 2 * One
RECURSIVE DigitsMul(_, _, _)
DigitsMul(d, r, carry) ==
  IF d = << >> THEN Digits(carry)
  ELSE LET p == Head(d) * r + carry
       IN  << p % Limb >> \o DigitsMul(Tail(d), r, p \div Limb)

\* r^n
RECURSIVE DigitsPow(_, _)
DigitsPow(r, n) ==
  IF n = 0 THEN << 1 >> ELSE DigitsMul(DigitsPow(r, n - 1), r, 0)

\* d * One^k
RECURSIVE DigitsShift(_, _)
DigitsShift(d, k) ==
  IF k = 0 \/ d = << >> THEN d ELSE << 0, 0 >> \o DigitsShift(d, k - 1)

\* x >= y on digits k..1
RECURSIVE DigitsGeFrom(_, _, _)
DigitsGeFrom(x, y, k) ==
  IF k = 0 THEN TRUE
  ELSE IF x[k] # y[k] THEN x[k] > y[k]
  ELSE DigitsGeFrom(x, y, k - 1)

DigitsGe(x, y) ==
  IF Len(x) # Len(y) THEN Len(x) > Len(y) ELSE DigitsGeFrom(x, y, Len(x))

\* (r / One)^n >= a / One, exactly
PowGe(r, n, a) == DigitsGe(DigitsPow(r, n), DigitsShift(Digits(a), n - 1))

\* The smallest r in (lo, hi] with r^n >= a.
RECURSIVE RootSearch(_, _, _, _)
RootSearch(lo, hi, a, n) ==
  IF hi - lo <= 1 THEN hi
  ELSE LET mid == (lo + hi) \div 2
       IN  IF PowGe(mid, n, a) THEN RootSearch(lo, mid, a, n)
           ELSE RootSearch(mid, hi, a, n)

\* a.powf(1.0 / n) for a >= 0
Root(a, n) == IF a = 0 THEN 0 ELSE RootSearch(0, IF a > One THEN a ELSE One, a, n)

\* f64::cbrt
Cbrt(a) == Sgn(a) * Root(Abs(a), 3)

QuarterPi == 785398
FracSqrt2 == 707107

\* The smallest r in (lo, hi] with sin r >= y.
RECURSIVE AsinSearch(_, _, _)
AsinSearch(lo, hi, y) ==
  IF hi - lo <= 1 THEN hi
  ELSE LET mid == (lo + hi) \div 2
       IN  IF Sin(mid) >= y THEN AsinSearch(lo, mid, y) ELSE AsinSearch(mid, hi, y)

\* asin y for 0 <= y <= sqrt(1/2)
AsinCore(y) == IF y = 0 THEN 0 ELSE AsinSearch(0, QuarterPi + 2, y)

\* asin y for 0 <= y <= 1
AsinMag(y) ==
  IF y <= FracSqrt2 THEN AsinCore(y)
  ELSE HalfPiHi - 2 * AsinCore(Sqrt(DivInt(One - y, 2)))

\* f64::asin, for |y| <= 1
Asin(y) == Sgn(y) * AsinMag(Abs(y))

\* f64::acos, for |y| <= 1
Acos(y) == HalfPiHi - Asin(y)

\* The smallest y in (lo, hi] with 2^y >= x.
RECURSIVE Log2Search(_, _, _)
Log2Search(lo, hi, x) ==
  IF hi - lo <= 1 THEN hi
  ELSE LET mid == (lo + hi) \div 2
       IN  IF Pow2(mid) >= x THEN Log2Search(lo, mid, x) ELSE Log2Search(mid, hi, x)

\* f64::log2, for x > 0
Log2(x) == Log2Search(-21 * One, 10 * One, x)

---------------------------------------------------------------------------
(* The curve evaluators, fn(f64) -> f64, each as its body computes it.     *)

Half == One \div 2

sine_in(x) == IF x = 0 \/ x = One THEN x ELSE One - Cos(DivInt(Mul(x, PI), 2))

inverse_sine_in(x) ==
  IF x = 0 \/ x = One THEN x ELSE Div(2 * Acos(One - x), PI)

sine_out(x) == IF x = 0 \/ x = One THEN x ELSE Sin(DivInt(Mul(x, PI), 2))

inverse_sine_out(x) == IF x = 0 \/ x = One THEN x ELSE Div(2 * Asin(x), PI)

sine_in_out(x) ==
  IF x = 0 \/ x = One THEN x ELSE DivInt(-(Cos(Mul(x, PI)) - One), 2)

inverse_sine_in_out(x) ==
  IF x = 0 \/ x = One THEN x ELSE Div(Acos(One - 2 * x), PI)

quad_in(x) == Mul(x, x)

inverse_quad_in(x) == Sqrt(x)

quad_out(x) == One - Mul(One - x, One - x)

inverse_quad_out(x) == One - Sqrt(One - x)

\* The InOut evaluators are an `if x < 0.5 { .. } else { .. }`: each branch
\* is an operator of its own, _lower below the threshold and _upper from it.
quad_in_out_lower(x) == Mul(2 * x, x)
quad_in_out_upper(x) ==
  LET v == -2 * x + 2 * One
  IN  One - DivInt(Mul(v, v), 2)

quad_in_out(x) ==
  IF x < Half THEN quad_in_out_lower(x) ELSE quad_in_out_upper(x)

\* A mutation of inverse_quad_in_out: the halving under the lower root
\* left out.
inverse_quad_in_out_unhalved(x) ==
  IF x < Half THEN Sqrt(x) ELSE One - Sqrt(DivInt(One - x, 2))

inverse_quad_in_out(x) ==
  IF x < Half THEN Sqrt(DivInt(x, 2)) ELSE One - Sqrt(DivInt(One - x, 2))

cubic_in(x) == Mul(Mul(x, x), x)

inverse_cubic_in(x) == Cbrt(x)

cubic_out(x) == One - Mul(Mul(One - x, One - x), One - x)

inverse_cubic_out(x) == One - Cbrt(One - x)

\* A mutation of cubic_in_out_lower: the factor 2 of quad_in_out in place
\* of 4.
cubic_in_out_lower_by_two(x) == Mul(Mul(2 * x, x), x)

cubic_in_out_lower(x) == Mul(Mul(4 * x, x), x)
cubic_in_out_upper(x) == One - DivInt(Powi(-2 * x + 2 * One, 3), 2)

cubic_in_out(x) ==
  IF x = 0 \/ x = One THEN x
  ELSE IF x < Half THEN cubic_in_out_lower(x)
  ELSE cubic_in_out_upper(x)

inverse_cubic_in_out(x) ==
  IF x = 0 \/ x = One THEN x
  ELSE IF x < Half THEN Cbrt(DivInt(x, 4))
  ELSE One - DivInt(Cbrt(2 * (One - x)), 2)

quart_in(x) == Mul(Mul(Mul(x, x), x), x)

inverse_quart_in(x) == Root(x, 4)

quart_out(x) == One - Powi(One - x, 4)

inverse_quart_out(x) == One - Root(One - x, 4)

quart_in_out_lower(x) == Mul(Mul(Mul(8 * x, x), x), x)
quart_in_out_upper(x) == One - DivInt(Powi(-2 * x + 2 * One, 4), 2)

quart_in_out(x) ==
  IF x < Half THEN quart_in_out_lower(x) ELSE quart_in_out_upper(x)

inverse_quart_in_out(x) ==
  IF x = 0 \/ x = One THEN x
  ELSE IF x < Half THEN Root(DivInt(x, 8), 4)
  ELSE One - DivInt(Root(2 * (One - x), 4), 2)

\* A mutation of quint_in: one factor short.
quint_in_quartic(x) == Mul(Mul(Mul(x, x), x), x)

quint_in(x) == Mul(Mul(Mul(Mul(x, x), x), x), x)

inverse_quint_in(x) == Root(x, 5)

quint_out(x) == One - Powi(One - x, 5)

inverse_quint_out(x) == One - Root(One - x, 5)

quint_in_out_lower(x) == Mul(Mul(Mul(Mul(16 * x, x), x), x), x)
quint_in_out_upper(x) == One - DivInt(Powi(-2 * x + 2 * One, 5), 2)

quint_in_out(x) ==
  IF x < Half THEN quint_in_out_lower(x) ELSE quint_in_out_upper(x)

inverse_quint_in_out(x) ==
  IF x = 0 \/ x = One THEN x
  ELSE IF x < Half THEN Root(DivInt(x, 16), 5)
  ELSE One - DivInt(Root(2 * (One - x), 5), 2)

\* A mutation of expo_in: the exponent scaled by 8 in place of 10.
expo_in_by_eight(x) == IF x = 0 \/ x = One THEN x ELSE Pow2(8 * x - 8 * One)

expo_in(x) == IF x = 0 \/ x = One THEN x ELSE Pow2(10 * x - 10 * One)

\* A mutation of inverse_expo_in: the special case for 0.0 and 1.0 left out.
inverse_expo_in_unguarded(x) == DivInt(Log2(x), 10) + One

inverse_expo_in(x) ==
  IF x = 0 \/ x = One THEN x ELSE DivInt(Log2(x), 10) + One

expo_out(x) == IF x = 0 \/ x = One THEN x ELSE One - Pow2(-10 * x)

inverse_expo_out(x) ==
  IF x = 0 \/ x = One THEN x ELSE -DivInt(Log2(One - x), 10)

expo_in_out_lower(x) == DivInt(Pow2(20 * x - 10 * One), 2)

\* A mutation of expo_in_out_upper: the division by 2.0 left out.
expo_in_out_upper_unhalved(x) == 2 * One - Pow2(-20 * x + 10 * One)

expo_in_out_upper(x) == DivInt(2 * One - Pow2(-20 * x + 10 * One), 2)

expo_in_out(x) ==
  IF x = 0 \/ x = One THEN x
  ELSE IF x < Half THEN expo_in_out_lower(x)
  ELSE expo_in_out_upper(x)

inverse_expo_in_out(x) ==
  IF x = 0 \/ x = One THEN x
  ELSE IF x < Half THEN DivInt(Log2(2 * x) + 10 * One, 20)
  ELSE One - DivInt(Log2(2 * One - 2 * x) + 10 * One, 20)

\* A mutation of circ_in: the square root clamped at 0, so that it never
\* gives NaN.
circ_in_clamped(x) ==
  LET a == One - Powi(x, 2)
  IN  One - Sqrt(IF a < 0 THEN 0 ELSE a)

circ_in(x) ==
  LET r == Sqrt(One - Powi(x, 2))
  IN  IF r = NaN THEN NaN ELSE One - r

inverse_circ_in(x) == Sqrt(One - Powi(One - x, 2))

circ_out(x) == Sqrt(One - Powi(x - One, 2))

inverse_circ_out(y) == One - Sqrt(One - Powi(y, 2))

circ_in_out_lower(x) ==
  LET r == Sqrt(One - Powi(2 * x, 2))
  IN  IF r = NaN THEN NaN ELSE DivInt(One - r, 2)
circ_in_out_upper(x) ==
  LET r == Sqrt(One - Powi(-2 * x + 2 * One, 2))
  IN  IF r = NaN THEN NaN ELSE DivInt(r + One, 2)

circ_in_out(x) ==
  IF x < Half THEN circ_in_out_lower(x) ELSE circ_in_out_upper(x)

inverse_circ_in_out(y) ==
  IF y < Half THEN DivInt(Sqrt(One - Powi(One - 2 * y, 2)), 2)
  ELSE One - DivInt(Sqrt(One - Powi(2 * y - One, 2)), 2)

\* const C1, C2 = C1 * 1.525, C3 = C1 + 1.0 of the back family
Back_C1 == 1701580
Back_C2 == Mul(Back_C1, 1525000)
Back_C3 == Back_C1 + One

\* A mutation of back_in: the overshoot constant C1 taken as 0, which
\* leaves the cubic x^3.
back_in_without_overshoot(x) ==
  IF x = 0 \/ x = One THEN x ELSE Mul(Mul(x, x), x)

\* A mutation of back_in: the result clamped to [0, 1].
back_in_clamped(x) ==
  LET r == Mul(Mul(Mul(Back_C3, x), x), x) - Mul(Mul(Back_C1, x), x)
  IN  IF x = 0 \/ x = One THEN x
      ELSE IF r < 0 THEN 0 ELSE IF r > One THEN One ELSE r

back_in(x) ==
  IF x = 0 \/ x = One THEN x
  ELSE Mul(Mul(Mul(Back_C3, x), x), x) - Mul(Mul(Back_C1, x), x)

back_out(x) ==
  IF x = 0 \/ x = One THEN x
  ELSE One + Mul(Back_C3, Powi(x - One, 3)) + Mul(Back_C1, Powi(x - One, 2))

back_in_out_lower(x) ==
  DivInt(Mul(Powi(2 * x, 2), Mul(2 * (Back_C2 + One), x) - Back_C2), 2)
back_in_out_upper(x) ==
  DivInt(Mul(Powi(2 * x - 2 * One, 2),
             Mul(Back_C2 + One, 2 * x - 2 * One) + Back_C2) + 2 * One, 2)

back_in_out(x) ==
  IF x < Half THEN back_in_out_lower(x) ELSE back_in_out_upper(x)

\* A mutation of elastic_in: the sine taken at a whole number of turns.
elastic_in_whole_turns(x) ==
  LET x2 == Mul(x, x)
  IN  Mul(Mul(x2, x2), Sin(4 * Mul(x, PI)))

elastic_in(x) ==
  LET x2 == Mul(x, x)
  IN  Mul(Mul(x2, x2), Sin(Mul(Mul(x, PI), 4500000)))

elastic_out(x) ==
  LET x2 == Mul(x - One, x - One)
  IN  One - Mul(Mul(x2, x2), Cos(Mul(Mul(x, PI), 4500000)))

\* elastic_in_out has three branches: below 0.45, below 0.55, and the rest.
elastic_in_out_lower(x) ==
  LET x2 == Mul(x, x)
  IN  Mul(Mul(8 * x2, x2), Sin(9 * Mul(x, PI)))
elastic_in_out_middle(x) == Half + Mul(750000, Sin(4 * Mul(x, PI)))
\* A mutation of elastic_in_out_upper: the amplitude measured from 0.0, as in
\* the lower branch, in place of from 1.0.
elastic_in_out_upper_from_zero(x) ==
  LET x2 == Mul(x, x)
  IN  One - Mul(Mul(8 * x2, x2), Sin(9 * Mul(x, PI)))

elastic_in_out_upper(x) ==
  LET x2 == Mul(x - One, x - One)
  IN  One - Mul(Mul(8 * x2, x2), Sin(9 * Mul(x, PI)))

elastic_in_out(x) ==
  IF x < 450000 THEN elastic_in_out_lower(x)
  ELSE IF x < 550000 THEN elastic_in_out_middle(x)
  ELSE elastic_in_out_upper(x)

bounce_in(x) ==
  Mul(Pow2(6 * (x - One)), Abs(Sin(Mul(Mul(x, PI), 3500000))))

\* A mutation of bounce_out: the sine of bounce_in kept in place of the
\* cosine.
bounce_out_sin(x) ==
  One - Mul(Pow2(-6 * x), Abs(Sin(Mul(Mul(x, PI), 3500000))))

bounce_out(x) ==
  One - Mul(Pow2(-6 * x), Abs(Cos(Mul(Mul(x, PI), 3500000))))

bounce_in_out_lower(x) ==
  Mul(8 * Pow2(8 * (x - One)), Abs(Sin(7 * Mul(x, PI))))
\* A mutation of bounce_in_out_upper: the factor 4 in place of 8.
bounce_in_out_upper_by_four(x) ==
  One - Mul(4 * Pow2(-8 * x), Abs(Sin(7 * Mul(x, PI))))

bounce_in_out_upper(x) ==
  One - Mul(8 * Pow2(-8 * x), Abs(Sin(7 * Mul(x, PI))))

bounce_in_out(x) ==
  IF x < Half THEN bounce_in_out_lower(x) ELSE bounce_in_out_upper(x)

\* The branch an InOut evaluator takes just below 0.5 and the branch it
\* takes from 0.5 on, as functions of their own: sine_in_out has one formula
\* for both, elastic_in_out is on its middle branch on both sides of 0.5.
BranchBelowHalf(f, x) ==
  CASE f = "sine_in_out" -> DivInt(-(Cos(Mul(x, PI)) - One), 2)
    [] f = "quad_in_out" -> quad_in_out_lower(x)
    [] f = "cubic_in_out" -> cubic_in_out_lower(x)
    [] f = "quart_in_out" -> quart_in_out_lower(x)
    [] f = "quint_in_out" -> quint_in_out_lower(x)
    [] f = "expo_in_out" -> expo_in_out_lower(x)
    [] f = "circ_in_out" -> circ_in_out_lower(x)
    [] f = "back_in_out" -> back_in_out_lower(x)
    [] f = "elastic_in_out" -> elastic_in_out_middle(x)
    [] f = "bounce_in_out" -> bounce_in_out_lower(x)

BranchFromHalf(f, x) ==
  CASE f = "sine_in_out" -> DivInt(-(Cos(Mul(x, PI)) - One), 2)
    [] f = "quad_in_out" -> quad_in_out_upper(x)
    [] f = "cubic_in_out" -> cubic_in_out_upper(x)
    [] f = "quart_in_out" -> quart_in_out_upper(x)
    [] f = "quint_in_out" -> quint_in_out_upper(x)
    [] f = "expo_in_out" -> expo_in_out_upper(x)
    [] f = "circ_in_out" -> circ_in_out_upper(x)
    [] f = "back_in_out" -> back_in_out_upper(x)
    [] f = "elastic_in_out" -> elastic_in_out_middle(x)
    [] f = "bounce_in_out" -> bounce_in_out_upper(x)

\* What a call of an evaluator ends in: a value returned, or a panic.
Return(x) == [ok |-> TRUE, val |-> x]
Panic == [ok |-> FALSE, val |-> 0]

\* A mutation of inverse_back_in: the identity its doc comment describes.
inverse_back_in_identity(y) == Return(y)

\* unimplemented!("... is irreversible")
inverse_back_in(y) == Panic
inverse_back_out(x) == Panic
inverse_back_in_out(x) == Panic
\* A mutation of inverse_elastic_in: the identity its doc comment describes.
inverse_elastic_in_identity(x) == Return(x)

inverse_elastic_in(x) == Panic
inverse_elastic_out(x) == Panic
inverse_elastic_in_out(x) == Panic
inverse_bounce_in(x) == Panic
inverse_bounce_out(x) == Panic
inverse_bounce_in_out(x) == Panic

---------------------------------------------------------------------------
(* impl Easing: the dispatch tables.  A fn(f64) -> f64 is carried as the   *)
(* name of the function.                                                   *)

\* unreachable!(): the lookup panics and returns no function.
Unreachable == "unreachable!()"

\* A mutation of apply_function: the arms of QuadIn and QuadOut crossed.
apply_function_crossed(self) ==
  CASE self = "Max" -> Unreachable
    [] self = "QuadIn" -> "quad_out"
    [] self = "QuadOut" -> "quad_in"
    [] OTHER ->
         [Sine |-> "sine", Quad |-> "quad", Cubic |-> "cubic",
          Quart |-> "quart", Quint |-> "quint", Expo |-> "expo",
          Circ |-> "circ", Back |-> "back", Elastic |-> "elastic",
          Bounce |-> "bounce"][Family(self)]
           \o [In |-> "_in", Out |-> "_out", InOut |-> "_in_out"][Phase(self)]

\* Easing::apply_function
apply_function(self) ==
  CASE self = "SineIn" -> "sine_in"
    [] self = "SineOut" -> "sine_out"
    [] self = "SineInOut" -> "sine_in_out"
    [] self = "QuadIn" -> "quad_in"
    [] self = "QuadOut" -> "quad_out"
    [] self = "QuadInOut" -> "quad_in_out"
    [] self = "CubicIn" -> "cubic_in"
    [] self = "CubicOut" -> "cubic_out"
    [] self = "CubicInOut" -> "cubic_in_out"
    [] self = "QuartIn" -> "quart_in"
    [] self = "QuartOut" -> "quart_out"
    [] self = "QuartInOut" -> "quart_in_out"
    [] self = "QuintIn" -> "quint_in"
    [] self = "QuintOut" -> "quint_out"
    [] self = "QuintInOut" -> "quint_in_out"
    [] self = "ExpoIn" -> "expo_in"
    [] self = "ExpoOut" -> "expo_out"
    [] self = "ExpoInOut" -> "expo_in_out"
    [] self = "CircIn" -> "circ_in"
    [] self = "CircOut" -> "circ_out"
    [] self = "CircInOut" -> "circ_in_out"
    [] self = "BackIn" -> "back_in"
    [] self = "BackOut" -> "back_out"
    [] self = "BackInOut" -> "back_in_out"
    [] self = "ElasticIn" -> "elastic_in"
    [] self = "ElasticOut" -> "elastic_out"
    [] self = "ElasticInOut" -> "elastic_in_out"
    [] self = "BounceIn" -> "bounce_in"
    [] self = "BounceOut" -> "bounce_out"
    [] self = "BounceInOut" -> "bounce_in_out"
    [] self = "Max" -> Unreachable

\* A mutation of reversible: BackIn listed among the reversible variants.
reversible_with_back_in(self) ==
  self \in { EasingDecl[k] : k \in 1..22 }

\* Easing::reversible
reversible(self) ==
  CASE self \in { "SineIn", "SineOut", "SineInOut",
                  "QuadIn", "QuadOut", "QuadInOut",
                  "CubicIn", "CubicOut", "CubicInOut",
                  "QuartIn", "QuartOut", "QuartInOut",
                  "QuintIn", "QuintOut", "QuintInOut",
                  "ExpoIn", "ExpoOut", "ExpoInOut",
                  "CircIn", "CircOut", "CircInOut" } -> TRUE
    [] OTHER -> FALSE

\* A mutation of inverse_function: the lookup itself refuses a variant
\* that has no inverse.
inverse_function_eager(self) ==
  IF self \in { EasingDecl[k] : k \in 1..21 }
  THEN "inverse_" \o apply_function(self)
  ELSE Unreachable

\* Easing::inverse_function
inverse_function(self) ==
  CASE self = "SineIn" -> "inverse_sine_in"
    [] self = "SineOut" -> "inverse_sine_out"
    [] self = "SineInOut" -> "inverse_sine_in_out"
    [] self = "QuadIn" -> "inverse_quad_in"
    [] self = "QuadOut" -> "inverse_quad_out"
    [] self = "QuadInOut" -> "inverse_quad_in_out"
    [] self = "CubicIn" -> "inverse_cubic_in"
    [] self = "CubicOut" -> "inverse_cubic_out"
    [] self = "CubicInOut" -> "inverse_cubic_in_out"
    [] self = "QuartIn" -> "inverse_quart_in"
    [] self = "QuartOut" -> "inverse_quart_out"
    [] self = "QuartInOut" -> "inverse_quart_in_out"
    [] self = "QuintIn" -> "inverse_quint_in"
    [] self = "QuintOut" -> "inverse_quint_out"
    [] self = "QuintInOut" -> "inverse_quint_in_out"
    [] self = "ExpoIn" -> "inverse_expo_in"
    [] self = "ExpoOut" -> "inverse_expo_out"
    [] self = "ExpoInOut" -> "inverse_expo_in_out"
    [] self = "CircIn" -> "inverse_circ_in"
    [] self = "CircOut" -> "inverse_circ_out"
    [] self = "CircInOut" -> "inverse_circ_in_out"
    [] self = "BackIn" -> "inverse_back_in"
    [] self = "BackOut" -> "inverse_back_out"
    [] self = "BackInOut" -> "inverse_back_in_out"
    [] self = "ElasticIn" -> "inverse_elastic_in"
    [] self = "ElasticOut" -> "inverse_elastic_out"
    [] self = "ElasticInOut" -> "inverse_elastic_in_out"
    [] self = "BounceIn" -> "inverse_bounce_in"
    [] self = "BounceOut" -> "inverse_bounce_out"
    [] self = "BounceInOut" -> "inverse_bounce_in_out"
    [] self = "Max" -> Unreachable

\* The call f(x) of a function value f.
CallFn(f, x) ==
  CASE f = "sine_in" -> Return(sine_in(x))
    [] f = "sine_out" -> Return(sine_out(x))
    [] f = "sine_in_out" -> Return(sine_in_out(x))
    [] f = "quad_in" -> Return(quad_in(x))
    [] f = "quad_out" -> Return(quad_out(x))
    [] f = "quad_in_out" -> Return(quad_in_out(x))
    [] f = "cubic_in" -> Return(cubic_in(x))
    [] f = "cubic_out" -> Return(cubic_out(x))
    [] f = "cubic_in_out" -> Return(cubic_in_out(x))
    [] f = "quart_in" -> Return(quart_in(x))
    [] f = "quart_out" -> Return(quart_out(x))
    [] f = "quart_in_out" -> Return(quart_in_out(x))
    [] f = "quint_in" -> Return(quint_in(x))
    [] f = "quint_out" -> Return(quint_out(x))
    [] f = "quint_in_out" -> Return(quint_in_out(x))
    [] f = "expo_in" -> Return(expo_in(x))
    [] f = "expo_out" -> Return(expo_out(x))
    [] f = "expo_in_out" -> Return(expo_in_out(x))
    [] f = "circ_in" -> Return(circ_in(x))
    [] f = "circ_out" -> Return(circ_out(x))
    [] f = "circ_in_out" -> Return(circ_in_out(x))
    [] f = "back_in" -> Return(back_in(x))
    [] f = "back_out" -> Return(back_out(x))
    [] f = "back_in_out" -> Return(back_in_out(x))
    [] f = "elastic_in" -> Return(elastic_in(x))
    [] f = "elastic_out" -> Return(elastic_out(x))
    [] f = "elastic_in_out" -> Return(elastic_in_out(x))
    [] f = "bounce_in" -> Return(bounce_in(x))
    [] f = "bounce_out" -> Return(bounce_out(x))
    [] f = "bounce_in_out" -> Return(bounce_in_out(x))
    [] f = "inverse_sine_in" -> Return(inverse_sine_in(x))
    [] f = "inverse_sine_out" -> Return(inverse_sine_out(x))
    [] f = "inverse_sine_in_out" -> Return(inverse_sine_in_out(x))
    [] f = "inverse_quad_in" -> Return(inverse_quad_in(x))
    [] f = "inverse_quad_out" -> Return(inverse_quad_out(x))
    [] f = "inverse_quad_in_out" -> Return(inverse_quad_in_out(x))
    [] f = "inverse_cubic_in" -> Return(inverse_cubic_in(x))
    [] f = "inverse_cubic_out" -> Return(inverse_cubic_out(x))
    [] f = "inverse_cubic_in_out" -> Return(inverse_cubic_in_out(x))
    [] f = "inverse_quart_in" -> Return(inverse_quart_in(x))
    [] f = "inverse_quart_out" -> Return(inverse_quart_out(x))
    [] f = "inverse_quart_in_out" -> Return(inverse_quart_in_out(x))
    [] f = "inverse_quint_in" -> Return(inverse_quint_in(x))
    [] f = "inverse_quint_out" -> Return(inverse_quint_out(x))
    [] f = "inverse_quint_in_out" -> Return(inverse_quint_in_out(x))
    [] f = "inverse_expo_in" -> Return(inverse_expo_in(x))
    [] f = "inverse_expo_out" -> Return(inverse_expo_out(x))
    [] f = "inverse_expo_in_out" -> Return(inverse_expo_in_out(x))
    [] f = "inverse_circ_in" -> Return(inverse_circ_in(x))
    [] f = "inverse_circ_out" -> Return(inverse_circ_out(x))
    [] f = "inverse_circ_in_out" -> Return(inverse_circ_in_out(x))
    [] f = "inverse_back_in" -> inverse_back_in(x)
    [] f = "inverse_back_out" -> inverse_back_out(x)
    [] f = "inverse_back_in_out" -> inverse_back_in_out(x)
    [] f = "inverse_elastic_in" -> inverse_elastic_in(x)
    [] f = "inverse_elastic_out" -> inverse_elastic_out(x)
    [] f = "inverse_elastic_in_out" -> inverse_elastic_in_out(x)
    [] f = "inverse_bounce_in" -> inverse_bounce_in(x)
    [] f = "inverse_bounce_out" -> inverse_bounce_out(x)
    [] f = "inverse_bounce_in_out" -> inverse_bounce_in_out(x)

---------------------------------------------------------------------------
(* struct Easings { current } and its Iterator implementation.             *)

CursorIds == 1..NCursors

\* A cursor slot before Easings::new() has built it.
NoCursor == [live |-> FALSE, current |-> "SineIn"]

\* Easings::new()
New == [live |-> TRUE, current |-> "SineIn"]

\* Option<Easing>: None, or Some(e) carried as e.
None == "None"

\* A mutation of NextResult: the cursor wraps around instead of stopping.
NextResultWrapping(cur) ==
  LET tmp == cur.current
  IN  [ret |-> tmp,
       cur |-> [cur EXCEPT !.current = From((AsUsize(tmp) + 1) % 30)]]

\* A mutation of NextResult: next() at the sentinel returns None and puts
\* the cursor back at SineIn.
NextResultRestarting(cur) ==
  IF cur.current # "Max"
  THEN LET tmp == cur.current
       IN  [ret |-> tmp,
            cur |-> [cur EXCEPT !.current = From(AsUsize(tmp) + 1)]]
  ELSE [ret |-> None, cur |-> [cur EXCEPT !.current = From(0)]]

\* Easings::next: the value returned and the cursor left behind.
NextResult(cur) ==
  IF cur.current # "Max"
  THEN LET tmp == cur.current
       IN  [ret |-> tmp,
            cur |-> [cur EXCEPT !.current = From(AsUsize(tmp) + 1)]]
  ELSE [ret |-> None, cur |-> cur]

NoLast == [op |-> "none", cursor |-> 0, before |-> "SineIn", ret |-> None]

\* The catalog call in progress or last made: the operation, its receiver or
\* result v, its integer argument or result n, the function looked up, the
\* f64 argument t and result val, the bool result flag, and how far it got:
\* stage "lookup" (the function is in hand) or "invoke" (it was called),
\* status "looked_up", "returned" or "panicked".
NoCall == [op |-> "none", v |-> "SineIn", n |-> 0, fn |-> "none", t |-> 0,
           stage |-> "none", status |-> "idle", val |-> 0, flag |-> FALSE]

\* Easing::all() / Easings::new(): build cursor c.
AllCall(c) ==
  /\ ~cursors[c].live
  /\ cursors' = [cursors EXCEPT ![c] = New]
  /\ last' = [op |-> "all", cursor |-> c, before |-> "SineIn", ret |-> None]
  /\ UNCHANGED <<yielded, call, imageVars>>

\* A mutation of NextCall: one position shared by every cursor, so that a
\* next() on any cursor moves all the live ones.
NextCallShared(c) ==
  /\ cursors[c].live
  /\ LET r == NextResult(cursors[c])
     IN  /\ cursors' = [d \in CursorIds |->
                         IF cursors[d].live THEN NextResult(cursors[d]).cur
                         ELSE cursors[d]]
         /\ yielded' = IF r.ret = None THEN yielded
                       ELSE [yielded EXCEPT ![c] = Append(@, r.ret)]
         /\ last' = [op |-> "next", cursor |-> c,
                     before |-> cursors[c].current, ret |-> r.ret]
  /\ UNCHANGED <<call, imageVars>>

\* cursor.next()
NextCall(c) ==
  /\ cursors[c].live
  /\ LET r == NextResult(cursors[c])
     IN  /\ cursors' = [cursors EXCEPT ![c] = r.cur]
         /\ yielded' = IF r.ret = None THEN yielded
                       ELSE [yielded EXCEPT ![c] = Append(@, r.ret)]
         /\ last' = [op |-> "next", cursor |-> c,
                     before |-> cursors[c].current, ret |-> r.ret]
  /\ UNCHANGED <<call, imageVars>>

---------------------------------------------------------------------------
(* egui_extras::RetainedImage: an image uploaded to the egui context the   *)
(* first time its texture is asked for.  texture_id is modelled lock by    *)
(* lock, one thread at a time taking a step.                               *)

\* The threads sharing the image; NoThread holds a lock nobody holds.
Threads == 1..NThreads
NoThread == 0

\* egui::ColorImage: a size and size[0] * size[1] pixels.  The images handed
\* to from_color_image are of one colour each.
Colours == { "red", "blue" }
ColorImage(w, h, c) == [size |-> <<w, h>>, pixels |-> [k \in 1..(w * h) |-> c]]
Images ==
  { ColorImage(w, h, c) : w \in 0..MaxSide, h \in 0..MaxSide, c \in Colours }

\* ColorImage::default(), which std::mem::take leaves behind.
EmptyImage == [size |-> <<0, 0>>, pixels |-> << >>]

\* egui::TextureOptions: the default and one other.
DefaultOptions == "LINEAR"
TextureOptions == { "LINEAR", "NEAREST" }

\* Option<TextureHandle>: NoTexture is None, Some(handle) is carried as the
\* handle's texture id, the position of the texture in the context.
NoTexture == 0

\* struct RetainedImage, before it is built.
NoRetained ==
  [built |-> FALSE, size |-> <<0, 0>>, image |-> EmptyImage,
   texture |-> NoTexture, options |-> DefaultOptions]

\* A thread: where it is in texture_id, the image it took and the handle it
\* holds inside the closure, and whether its call ran the closure.
IdleThread ==
  [pc |-> "idle", image |-> EmptyImage, handle |-> NoTexture,
   loaded |-> FALSE]

\* The last call on the image that returned: the call, the thread it was
\* made on, and what it returned: the texture id (and whether the call
\* loaded the texture), the size, or the width or height.
NoShown == [op |-> "none", thread |-> NoThread, id |-> NoTexture,
            loaded |-> FALSE, dims |-> <<0, 0>>, n |-> 0]

\* RetainedImage::from_color_image
FromColorImage(image) ==
  /\ ~retained.built
  /\ retained' = [built |-> TRUE, size |-> image.size, image |-> image,
                  texture |-> NoTexture, options |-> DefaultOptions]
  /\ shown' = [NoShown EXCEPT !.op = "from_color_image"]
  /\ UNCHANGED <<textures, locks, threads, cursors, yielded, last, call>>

\* RetainedImage::with_options.  It takes self by value, so no texture_id
\* on the image is in progress.
WithOptions(options) ==
  /\ retained.built
  /\ \A th \in Threads : threads[th].pc = "idle"
  /\ Len(textures) < MaxUploads
  /\ locks.texture = NoThread
  /\ retained' = [retained EXCEPT !.options = options, !.texture = NoTexture]
  /\ shown' = [NoShown EXCEPT !.op = "with_options"]
  /\ UNCHANGED <<textures, locks, threads, cursors, yielded, last, call>>

\* RetainedImage::size
SizeCall ==
  /\ retained.built
  /\ shown' = [NoShown EXCEPT !.op = "size", !.dims = retained.size]
  /\ UNCHANGED <<retained, textures, locks, threads,
                 cursors, yielded, last, call>>

\* RetainedImage::width
WidthCall ==
  /\ retained.built
  /\ shown' = [NoShown EXCEPT !.op = "width", !.n = retained.size[1]]
  /\ UNCHANGED <<retained, textures, locks, threads,
                 cursors, yielded, last, call>>

\* RetainedImage::height
HeightCall ==
  /\ retained.built
  /\ shown' = [NoShown EXCEPT !.op = "height", !.n = retained.size[2]]
  /\ UNCHANGED <<retained, textures, locks, threads,
                 cursors, yielded, last, call>>

\* texture_id: thread th enters and asks for the texture lock.
BeginTextureId(th) ==
  /\ retained.built
  /\ threads[th].pc = "idle"
  /\ threads' = [threads EXCEPT ![th].pc = "want_texture"]
  /\ UNCHANGED <<retained, textures, locks, shown,
                 cursors, yielded, last, call>>

\* A mutation of LockTexture: the texture lock excludes nobody.
LockTextureShared(th) ==
  /\ threads[th].pc = "want_texture"
  /\ locks' = [locks EXCEPT !.texture = th]
  /\ threads' = [threads EXCEPT ![th].pc = "have_texture"]
  /\ UNCHANGED <<retained, textures, shown, cursors, yielded, last, call>>

\* texture_id: self.texture.lock()
LockTexture(th) ==
  /\ threads[th].pc = "want_texture"
  /\ locks.texture = NoThread
  /\ locks' = [locks EXCEPT !.texture = th]
  /\ threads' = [threads EXCEPT ![th].pc = "have_texture"]
  /\ UNCHANGED <<retained, textures, shown, cursors, yielded, last, call>>

\* A mutation of GetOrInsertWith: the closure is run whether or not a
\* texture is there.
GetOrInsertWithAlways(th) ==
  /\ threads[th].pc = "have_texture"
  /\ threads' = [threads EXCEPT ![th].pc = "want_image", ![th].loaded = TRUE]
  /\ UNCHANGED <<retained, textures, locks, shown,
                 cursors, yielded, last, call>>

\* texture_id: get_or_insert_with looks at the Option: Some, and the handle
\* in it is the result; None, and the closure is entered, which asks for
\* the image lock.
GetOrInsertWith(th) ==
  /\ threads[th].pc = "have_texture"
  /\ threads' =
       IF retained.texture # NoTexture
       THEN [threads EXCEPT ![th].pc = "got",
                            ![th].handle = retained.texture,
                            ![th].loaded = FALSE]
       ELSE [threads EXCEPT ![th].pc = "want_image", ![th].loaded = TRUE]
  /\ UNCHANGED <<retained, textures, locks, shown,
                 cursors, yielded, last, call>>

\* texture_id, in the closure: self.image.lock()
LockImage(th) ==
  /\ threads[th].pc = "want_image"
  /\ locks.image = NoThread
  /\ locks' = [locks EXCEPT !.image = th]
  /\ threads' = [threads EXCEPT ![th].pc = "have_image"]
  /\ UNCHANGED <<retained, textures, shown, cursors, yielded, last, call>>

\* A mutation of TakeImage: the image is cloned and stays where it is.
TakeImageCloning(th) ==
  /\ threads[th].pc = "have_image"
  /\ threads' = [threads EXCEPT ![th].pc = "taken",
                                ![th].image = retained.image]
  /\ UNCHANGED <<retained, textures, locks, shown,
                 cursors, yielded, last, call>>

\* texture_id, in the closure: std::mem::take(image)
TakeImage(th) ==
  /\ threads[th].pc = "have_image"
  /\ threads' = [threads EXCEPT ![th].pc = "taken",
                                ![th].image = retained.image]
  /\ retained' = [retained EXCEPT !.image = EmptyImage]
  /\ UNCHANGED <<textures, locks, shown, cursors, yielded, last, call>>

\* egui::Context::load_texture: the context allocates a texture holding the
\* image with the options, and the handle carries its id.
load_texture(image, options) ==
  [textures |-> Append(textures, [image |-> image, options |-> options]),
   handle |-> Len(textures) + 1]

\* texture_id, in the closure: ctx.load_texture(&self.debug_name, image,
\* self.options); the image taken moves into the call.
LoadTexture(th) ==
  /\ threads[th].pc = "taken"
  /\ LET r == load_texture(threads[th].image, retained.options)
     IN  /\ textures' = r.textures
         /\ threads' = [threads EXCEPT ![th].pc = "loaded",
                                       ![th].handle = r.handle,
                                       ![th].image = EmptyImage]
  /\ UNCHANGED <<retained, locks, shown, cursors, yielded, last, call>>

\* texture_id: the closure returns, which drops the guard of the image lock.
UnlockImage(th) ==
  /\ threads[th].pc = "loaded"
  /\ locks' = [locks EXCEPT !.image = NoThread]
  /\ threads' = [threads EXCEPT ![th].pc = "made"]
  /\ UNCHANGED <<retained, textures, shown, cursors, yielded, last, call>>

\* texture_id: get_or_insert_with stores what the closure returned.
InsertTexture(th) ==
  /\ threads[th].pc = "made"
  /\ retained' = [retained EXCEPT !.texture = threads[th].handle]
  /\ threads' = [threads EXCEPT ![th].pc = "got"]
  /\ UNCHANGED <<textures, locks, shown, cursors, yielded, last, call>>

\* texture_id: .id() of the handle is returned, and the guard of the texture
\* lock is dropped at the end of the statement.
ReturnTextureId(th) ==
  /\ threads[th].pc = "got"
  /\ locks' = [locks EXCEPT !.texture = NoThread]
  /\ threads' = [threads EXCEPT ![th] = IdleThread]
  /\ shown' = [NoShown EXCEPT !.op = "texture_id", !.thread = th,
                              !.id = threads[th].handle,
                              !.loaded = threads[th].loaded]
  /\ UNCHANGED <<retained, textures, cursors, yielded, last, call>>

\* One step of texture_id on thread th.
TextureIdStep(th) ==
  \/ BeginTextureId(th)
  \/ LockTexture(th)
  \/ GetOrInsertWith(th)
  \/ LockImage(th)
  \/ TakeImage(th)
  \/ LoadTexture(th)
  \/ UnlockImage(th)
  \/ InsertTexture(th)
  \/ ReturnTextureId(th)

Init ==
  /\ cursors = [c \in CursorIds |-> NoCursor]
  /\ yielded = [c \in CursorIds |-> << >>]
  /\ last = NoLast
  /\ call = NoCall
  /\ retained = NoRetained
  /\ textures = << >>
  /\ locks = [texture |-> NoThread, image |-> NoThread]
  /\ threads = [th \in Threads |-> IdleThread]
  /\ shown = NoShown

Next ==
  \/ \E c \in CursorIds : AllCall(c)
  \/ \E c \in CursorIds : NextCall(c)

Spec == Init /\ [][Next]_vars

---------------------------------------------------------------------------
(* Calls into the catalog: the conversions, reversible, and apply and      *)
(* inverse, each of the last two a lookup of the function followed by its  *)
(* call.                                                                   *)

\* The arguments between 0.0 and 1.0 handed to the evaluators: an even grid
\* and the thresholds the InOut evaluators branch on.
Thresholds == { 450000, Half, 550000 }
TGrid == { (k * One) \div TSteps : k \in 0..TSteps } \cup Thresholds

\* Easing::from(i)
FromCall(i) ==
  /\ call' = [NoCall EXCEPT !.op = "from", !.n = i, !.v = From(i),
                            !.status = "returned"]
  /\ UNCHANGED <<cursors, yielded, last, imageVars>>

\* e as usize
AsUsizeCall(e) ==
  /\ call' = [NoCall EXCEPT !.op = "as_usize", !.v = e, !.n = AsUsize(e),
                            !.status = "returned"]
  /\ UNCHANGED <<cursors, yielded, last, imageVars>>

\* e.reversible()
ReversibleCall(e) ==
  /\ call' = [NoCall EXCEPT !.op = "reversible", !.v = e,
                            !.flag = reversible(e), !.status = "returned"]
  /\ UNCHANGED <<cursors, yielded, last, imageVars>>

\* The lookup half of a call: f is what the dispatch table gave.
Lookup(op, e, f) ==
  [NoCall EXCEPT !.op = op, !.v = e, !.stage = "lookup",
                 !.fn = IF f = Unreachable THEN "none" ELSE f,
                 !.status = IF f = Unreachable THEN "panicked" ELSE "looked_up"]

\* e.apply_function(), alone or as the first half of e.apply(t)
ApplyFunctionCall(e) ==
  /\ call' = Lookup("apply", e, apply_function(e))
  /\ UNCHANGED <<cursors, yielded, last, imageVars>>

\* e.inverse_function(), alone or as the first half of e.inverse(t)
InverseFunctionCall(e) ==
  /\ call' = Lookup("inverse", e, inverse_function(e))
  /\ UNCHANGED <<cursors, yielded, last, imageVars>>

\* The call of the function looked up, with argument t.
Invoke(t) ==
  /\ call.status = "looked_up"
  /\ LET r == CallFn(call.fn, t)
     IN  call' = [call EXCEPT !.stage = "invoke", !.t = t, !.val = r.val,
                    !.status = IF r.ok THEN "returned" ELSE "panicked"]
  /\ UNCHANGED <<cursors, yielded, last, imageVars>>

\* Arguments outside [0, 1], which apply accepts.
OutsideArgs == { -One, 2 * One }

\* The call of the forward function looked up, with an argument outside
\* [0, 1].
InvokeOutside(t) == call.op = "apply" /\ Invoke(t)

\* e.apply(t) and e.inverse(t) in one piece: the lookup, then the call.
apply(self, x) == CallFn(apply_function(self), x)
inverse(self, x) == CallFn(inverse_function(self), x)

NextEval ==
  \/ \E i \in 0..MaxOrdinal : FromCall(i)
  \/ \E e \in EasingValues : AsUsizeCall(e)
  \/ \E e \in EasingValues : ReversibleCall(e)
  \/ \E e \in EasingValues : ApplyFunctionCall(e)
  \/ \E e \in EasingValues : InverseFunctionCall(e)
  \/ \E t \in TGrid : Invoke(t)
  \/ \E t \in OutsideArgs : InvokeOutside(t)

SpecEval == Init /\ [][NextEval]_vars

---------------------------------------------------------------------------
(* Properties of the evaluators and the dispatch, under SpecEval.          *)

\* A call e.apply(t) or e.inverse(t) that has run to its end.
Applied == call.op = "apply" /\ call.stage = "invoke"
Inverted == call.op = "inverse" /\ call.stage = "invoke"

IrreversibleFamilies == { "Back", "Elastic", "Bounce" }
ReversibleFamilies ==
  { "Sine", "Quad", "Cubic", "Quart", "Quint", "Expo", "Circ" }

\* C1: for each of the 30 curves, apply(v, 0.0) returns exactly 0.0 and
\* apply(v, 1.0) returns exactly 1.0.
C1_BoundaryExact ==
  (Applied /\ call.v \in Curves /\ call.t \in {0, One})
    => (call.status = "returned" /\ call.val = call.t)

\* C1 witness: ElasticIn, which has no special case for 1.0, applied to 1.0.
C1_Witness ==
  /\ Applied
  /\ call.v = "ElasticIn"
  /\ call.t = One
  /\ call.val = One

C3_ReversibleIffFamily ==
  (call.op = "reversible" /\ call.v \in Curves)
    => /\ call.status = "returned"
       /\ call.flag <=> (Family(call.v) \in ReversibleFamilies)
       /\ \A e \in Curves :
            (Family(e) = Family(call.v)) => (reversible(e) = call.flag)

\* C3 witness: BounceInOut.reversible() returned false.
C3_Witness ==
  /\ call.op = "reversible"
  /\ call.v = "BounceInOut"
  /\ call.flag = FALSE

C5_ApplyFunctionTotal ==
  (call.op = "apply" /\ call.stage = "lookup")
    => (call.status = "looked_up" /\ call.fn # "none")

\* C6: Easing::from is total: every i in 0..29 gives the curve whose
\* discriminant is i, every i >= 30 gives the sentinel Max.
C6_FromTotal ==
  (call.op = "from")
    => /\ call.status = "returned"
       /\ call.v \in EasingValues
       /\ (call.n <= 29) => (call.v \in Curves /\ AsUsize(call.v) = call.n)
       /\ (call.n >= 30) => (call.v = "Max")

\* C6 witness: Easing::from(31) returned Max.
C6_Witness ==
  /\ call.op = "from"
  /\ call.n = 31
  /\ call.v = "Max"

\* C8: the discriminants are a bijection between the 30 curves and 0..29:
\* from(i) as usize = i for i in 0..29, from(e as usize) = e for every
\* curve e, and no two curves share a discriminant.
C8_OrdinalBijection ==
  /\ (call.op = "from" /\ call.n \in 0..29) => (AsUsize(call.v) = call.n)
  /\ (call.op = "as_usize" /\ call.v \in Curves)
       => /\ call.n \in 0..29
          /\ From(call.n) = call.v
          /\ \A e \in Curves : (e # call.v) => (AsUsize(e) # call.n)

\* C8 witness: BounceInOut as usize gave 29.
C8_Witness ==
  /\ call.op = "as_usize"
  /\ call.v = "BounceInOut"
  /\ call.n = 29

---------------------------------------------------------------------------
(* Properties of the cursor, under Spec.                                   *)

\* The cursor's position: the discriminant of its current variant.
Position(c) == AsUsize(cursors[c].current)

\* next() on cursor c has returned None.
Exhausted(c) == last.op = "next" /\ last.cursor = c /\ last.ret = None

\* C7: a fresh cursor yields exactly 30 variants, in discriminant order
\* 0, 1, ..., 29 from SineIn to BounceInOut, each curve once, never Max.
C7_AllYieldsCatalogInOrder ==
  \A c \in CursorIds :
    /\ Len(yielded[c]) <= 30
    /\ \A k \in 1..Len(yielded[c]) :
         yielded[c][k] # "Max" /\ AsUsize(yielded[c][k]) = k - 1
    /\ Exhausted(c)
         => /\ Len(yielded[c]) = 30
            /\ yielded[c][1] = "SineIn"
            /\ yielded[c][30] = "BounceInOut"
            /\ { yielded[c][k] : k \in 1..30 } = Curves

\* C7 witness: a cursor has been run until next() returned None.
C7_Witness ==
  \E c \in CursorIds : Exhausted(c) /\ Len(yielded[c]) = 30

\* C9: next() on a cursor at discriminant k < 30 returns the variant with
\* discriminant k and leaves the cursor at k + 1; next() on a cursor at the
\* sentinel returns None.
C9_NextReturnsAndAdvances ==
  (last.op = "next")
    => /\ (AsUsize(last.before) < 30)
            => /\ last.ret = EasingDecl[AsUsize(last.before) + 1]
               /\ last.ret = last.before
               /\ Position(last.cursor) = AsUsize(last.before) + 1
       /\ (last.before = "Max") => (last.ret = None)

\* C9 witness: next() at BounceInOut returned it and left the cursor at Max.
C9_Witness ==
  /\ last.op = "next"
  /\ last.before = "BounceInOut"
  /\ last.ret = "BounceInOut"
  /\ cursors[last.cursor].current = "Max"

\* C10: a cursor is forward-only and finite: no step moves a cursor back or
\* resets it, every successful next() moves it strictly forward, and the
\* number of successful next() calls is the position, so never above 30.
C10_ForwardOnlyFinite ==
  /\ [](\A c \in CursorIds :
          cursors[c].live => (Len(yielded[c]) = Position(c) /\ Position(c) <= 30))
  /\ [][\A c \in CursorIds :
          cursors[c].live
            => /\ cursors'[c].live
               /\ AsUsize(cursors'[c].current) >= Position(c)
               /\ (last'.op = "next" /\ last'.cursor = c /\ last'.ret # None)
                    => AsUsize(cursors'[c].current) > Position(c)]_vars

\* C10 witness: the thirtieth successful next() has just moved a cursor to
\* the sentinel.
C10_Witness ==
  \E c \in CursorIds :
    /\ last.op = "next"
    /\ last.cursor = c
    /\ last.ret # None
    /\ cursors[c].current = "Max"
    /\ Len(yielded[c]) = 30

---------------------------------------------------------------------------
(* Cursors and catalog calls interleaved, under SpecMixed: any number of   *)
(* cursors stepping in any order, with reversible, apply and inverse       *)
(* calls in between.                                                       *)

MixedCurves == { "QuadIn" }
MixedArgs == { Half }

NextMixed ==
  \/ \E c \in CursorIds : AllCall(c)
  \/ \E c \in CursorIds : NextCall(c)
  \/ \E e \in MixedCurves : ReversibleCall(e)
  \/ \E e \in MixedCurves : ApplyFunctionCall(e)
  \/ \E e \in MixedCurves : InverseFunctionCall(e)
  \/ \E t \in MixedArgs : Invoke(t)

SpecMixed == Init /\ [][NextMixed]_vars

\* The step is all() or next() on cursor c.
StepsCursor(c) == last' # last /\ last'.cursor = c

\* C11: cursors are isolated: a cursor starts at discriminant 0 whatever
\* the other cursors have done, only its own next() moves it, no catalog
\* call (reversible, apply, inverse) touches any cursor, and so each cursor
\* yields the full 30-curve sequence under every interleaving.
C11_CursorsIsolated ==
  /\ [](\A c \in CursorIds :
          /\ cursors[c].live =>
               /\ Len(yielded[c]) = Position(c)
               /\ \A k \in 1..Len(yielded[c]) : yielded[c][k] = EasingDecl[k]
          /\ Exhausted(c) => (Len(yielded[c]) = 30))
  /\ [][\A c \in CursorIds :
          /\ ~StepsCursor(c)
               => (cursors'[c] = cursors[c] /\ yielded'[c] = yielded[c])
          /\ (StepsCursor(c) /\ last'.op = "all")
               => (Position(c)' = 0 /\ yielded'[c] = << >>)
          /\ (call' # call)
               => (cursors' = cursors /\ yielded' = yielded /\ last' = last)]_vars

\* C11 witness: one cursor has been run to its end and has yielded all 30
\* curves while another sits part-way and QuadIn.inverse(0.5) has returned.
C11_Witness ==
  \E c, d \in CursorIds :
    /\ c # d
    /\ Exhausted(c)
    /\ Len(yielded[c]) = 30
    /\ cursors[d].live
    /\ Position(d) \in 1..29
    /\ Inverted
    /\ call.v = "QuadIn"
    /\ call.status = "returned"

---------------------------------------------------------------------------
(* How the three phases of a family relate, under SpecEval.                *)

\* The variant of a family in a phase.
Variant(family, phase) ==
  CHOOSE e \in Curves : Family(e) = family /\ Phase(e) = phase

\* apply has returned for an argument between 0.0 and 1.0.
AppliedOnUnit ==
  Applied /\ call.v \in Curves /\ call.status = "returned" /\ call.t \in TGrid

\* C12: for each of the ten families and every t in [0, 1], the Out variant
\* is the point reflection of the In variant:
\* apply(Out, t) = 1 - apply(In, 1 - t), up to the rounding of the grid.
C12_OutReflectsIn ==
  (AppliedOnUnit /\ Phase(call.v) = "Out")
    => LET in == apply(Variant(Family(call.v), "In"), One - call.t)
       IN  /\ in.ok
           /\ Abs(call.val - (One - in.val)) <= RoundingUlps

\* C12 witness: BounceOut applied to 0.25, where it is well inside (0, 1).
C12_Witness ==
  /\ AppliedOnUnit
  /\ call.v = "BounceOut"
  /\ call.t = One \div 4
  /\ call.val > One \div 10
  /\ call.val < One

\* The splice of the In and Out variants of a family at t: In compressed
\* into the lower half, Out into the upper half.
Splice(family, t) ==
  IF t < Half
  THEN DivInt(apply(Variant(family, "In"), 2 * t).val, 2)
  ELSE DivInt(apply(Variant(family, "Out"), 2 * t - One).val + One, 2)

\* apply(InOut, t) is the splice of the family's In and Out at t.
IsSplice ==
  Abs(call.val - Splice(Family(call.v), call.t)) <= RoundingUlps

\* C13 as stated: for each of the ten families and every t in [0, 1],
\* apply(InOut, t) = apply(In, 2t) / 2 for t < 0.5 and
\* (apply(Out, 2t - 1) + 1) / 2 for t >= 0.5.
C13_InOutIsSpliceEveryFamily ==
  (AppliedOnUnit /\ Phase(call.v) = "InOut") => IsSplice

\* C13, amended: the InOut variant is that splice for Sine, Quad, Cubic,
\* Quart, Quint, Expo and Circ at every t in [0, 1], and for Elastic at
\* every t outside [0.45, 0.55).
C13_InOutIsSplice ==
  (/\ AppliedOnUnit
   /\ Phase(call.v) = "InOut"
   /\ \/ Family(call.v) \in ReversibleFamilies
      \/ Family(call.v) = "Elastic" /\ (call.t < 450000 \/ call.t >= 550000))
    => IsSplice

\* C13 witness: ElasticInOut applied to 0.75, on its last branch, where the
\* curve is away from 0 and 1.
C13_Witness ==
  /\ AppliedOnUnit
  /\ call.v = "ElasticInOut"
  /\ call.t = 3 * (One \div 4)
  /\ Abs(call.val - One) > RoundingUlps
  /\ IsSplice

---------------------------------------------------------------------------
(* Round trips, under SpecTrip: a caller applies a curve and hands the     *)
(* result to the inverse of the same curve.                                *)

TripGrid == { (k * One) \div TripSteps : k \in 0..TripSteps } \cup { Half }

\* e.inverse(e.apply(t)): the second half, the first being a returned apply.
InverseOfResult ==
  /\ Applied
  /\ call.status = "returned"
  /\ LET r == inverse(call.v, call.val)
     IN  call' = [call EXCEPT !.op = "inverse",
                              !.fn = inverse_function(call.v),
                              !.t = call.val, !.val = r.val,
                              !.status = IF r.ok THEN "returned" ELSE "panicked"]
  /\ UNCHANGED <<cursors, yielded, last, imageVars>>

NextTrip ==
  \/ \E e \in Curves : ApplyFunctionCall(e)
  \/ \E t \in TripGrid : Invoke(t)
  \/ InverseOfResult

SpecTrip == Init /\ [][NextTrip]_vars

\* The round-trip tolerance, 1e-3.
TripTol == 1000 * Eps

\* C15: for each of the 21 reversible variants and every t in [0, 1],
\* inverse(v, apply(v, t)) returns t within 1e-3.
C15_RoundTrip ==
  [][(/\ Applied
      /\ call.status = "returned"
      /\ reversible(call.v)
      /\ call'.op = "inverse")
       => /\ call'.status = "returned"
          /\ call'.v = call.v
          /\ call'.t = call.val
          /\ Abs(call'.val - call.t) <= TripTol]_vars

\* C15 witness: QuadIn.inverse(0.25) returned 0.5, 0.25 being what
\* QuadIn.apply(0.5) returned.
C15_Witness ==
  /\ Inverted
  /\ call.v = "QuadIn"
  /\ call.t = One \div 4
  /\ call.val = Half
  /\ quad_in(Half) = One \div 4

---------------------------------------------------------------------------
(* Values of single evaluators, under SpecEval.                            *)

\* C16: for each of the 21 reversible variants, inverse(v, 0.0) returns
\* exactly 0.0 and inverse(v, 1.0) returns exactly 1.0.
C16_InverseBoundaryExact ==
  (Inverted /\ call.v \in Curves /\ reversible(call.v) /\ call.t \in {0, One})
    => (call.status = "returned" /\ call.val = call.t)

\* C16 witness: ExpoIn.inverse(0.0), where the formula log2(x) / 10 + 1
\* alone has no finite value, returned 0.0.
C16_Witness ==
  /\ Inverted
  /\ call.v = "ExpoIn"
  /\ call.t = 0
  /\ call.status = "returned"
  /\ call.val = 0

\* The degree of a polynomial family.
Degree(family) ==
  CASE family = "Quad" -> 2
    [] family = "Cubic" -> 3
    [] family = "Quart" -> 4
    [] family = "Quint" -> 5

PolynomialFamilies == { "Quad", "Cubic", "Quart", "Quint" }

\* v is base^n up to the rounding of the grid, the power taken exactly.
IsPower(base, n, v) ==
  /\ PowGe(base, n, IF v > RoundingUlps THEN v - RoundingUlps ELSE 0)
  /\ ~PowGe(base, n, v + RoundingUlps + 1)

\* C17: the polynomial families are the closed forms apply(In, t) = t^n and
\* apply(Out, t) = 1 - (1 - t)^n with n = 2, 3, 4, 5 for Quad, Cubic, Quart,
\* Quint; in particular apply(QuadIn, 0.5) = 0.25 and
\* apply(CubicOut, 0.5) = 0.875.
C17_PolynomialClosedForms ==
  (AppliedOnUnit /\ Family(call.v) \in PolynomialFamilies)
    => LET n == Degree(Family(call.v))
       IN  /\ (Phase(call.v) = "In") => IsPower(call.t, n, call.val)
           /\ (Phase(call.v) = "Out") => IsPower(One - call.t, n, One - call.val)
           /\ (call.v = "QuadIn" /\ call.t = Half) => (call.val = 250000)
           /\ (call.v = "CubicOut" /\ call.t = Half) => (call.val = 875000)

\* C17 witness: CubicOut applied to 0.5 returned 0.875.
C17_Witness ==
  /\ AppliedOnUnit
  /\ call.v = "CubicOut"
  /\ call.t = Half
  /\ call.val = 875000

\* 2^-j, by division.
BinaryFraction(j) == DivInt(One, Pow2Int(j))

\* One tenth, the step over which 2^(10t - 10) doubles.
Tenth == One \div 10

\* C18: apply(ExpoIn, t) = 2^(10t - 10) for 0 < t < 1: it is 2^-j at
\* t = 1 - j/10 (0.5 at 0.9, 0.25 at 0.8), its square is 2^-j at
\* t = 1 - j/20, and it doubles from t to t + 0.1; at t = 0 and t = 1 it is
\* special-cased to exactly 0 and 1, although the formula gives 2^-10 at 0.
C18_ExpoInClosedForm ==
  (AppliedOnUnit /\ call.v = "ExpoIn")
    => /\ (call.t = 0) => (call.val = 0 /\ Pow2(10 * call.t - 10 * One) = BinaryFraction(10))
       /\ (call.t = One) => (call.val = One)
       /\ (call.t = 9 * Tenth) => (call.val = Half)
       /\ (call.t = 8 * Tenth) => (call.val = One \div 4)
       /\ \A j \in 1..9 :
            (call.t = One - j * Tenth)
              => Abs(call.val - BinaryFraction(j)) <= RoundingUlps
       /\ \A j \in 1..19 :
            (call.t = One - j * (Tenth \div 2))
              => IsPower(call.val, 2, BinaryFraction(j))
       /\ (0 < call.t /\ call.t + Tenth < One)
            => Abs(apply("ExpoIn", call.t + Tenth).val - 2 * call.val)
                 <= RoundingUlps

\* C18 witness: ExpoIn applied to 0.9 returned 0.5.
C18_Witness ==
  /\ AppliedOnUnit
  /\ call.v = "ExpoIn"
  /\ call.t = 9 * Tenth
  /\ call.val = Half

---------------------------------------------------------------------------
(* Failures, under SpecEval.                                               *)

\* On the 30 curves nothing fails but the call of an unsupported inverse.
OnlyUnsupportedInverseFails ==
  /\ (call.op = "apply" /\ call.v \in Curves)
       => call.status \in {"looked_up", "returned"}
  /\ (call.op = "reversible") => (call.status = "returned")
  /\ (call.v \in Curves /\ call.status = "panicked")
       => (Inverted /\ ~reversible(call.v))

\* The argument of the square root of a Circ evaluator is negative at t.
CircRadicandNegative(v, t) ==
  \/ v = "CircIn" /\ (t < -One \/ t > One)
  \/ v = "CircOut" /\ (t < 0 \/ t > 2 * One)
  \/ v = "CircInOut" /\ (t < -Half \/ t > One + Half)

\* C19 as stated: the only failure is the unsupported inverse: apply(v, t)
\* on each of the 30 variants succeeds and returns a number for every t,
\* t outside [0, 1] included, and reversible(v) never fails.
C19_ApplyReturnsNumberEverywhere ==
  /\ OnlyUnsupportedInverseFails
  /\ (Applied /\ call.v \in Curves) => (call.val # NaN)

\* C19, amended: apply(v, t) on each of the 30 variants never fails, for
\* t outside [0, 1] as well, and reversible(v) never fails; what apply
\* returns is a number for every t in [0, 1], and outside [0, 1] it is NaN
\* exactly where a Circ variant takes the square root of a negative.
C19_ApplyNeverFails ==
  /\ OnlyUnsupportedInverseFails
  /\ (Applied /\ call.v \in Curves)
       => /\ (call.val = NaN) <=> CircRadicandNegative(call.v, call.t)
          /\ (call.t \in TGrid) => (call.val # NaN)

\* C19 witness: CircIn.apply(2.0) returned, and returned NaN.
C19_Witness ==
  /\ Applied
  /\ call.v = "CircIn"
  /\ call.t = 2 * One
  /\ call.status = "returned"
  /\ call.val = NaN

---------------------------------------------------------------------------
(* Overshoot, under SpecEval.                                              *)

\* A forward output outside [0, 1].
Overshoots(val) == val < 0 \/ val > One

\* C20 as stated: forward outputs are not clamped, and each of the Back,
\* Elastic and Bounce families produces, for some t in [0, 1], an output
\* outside [0, 1]: the family of any Back, Elastic or Bounce variant that
\* has been applied has a variant and a t with such an output.
C20_EveryIrreversibleFamilyOvershoots ==
  (AppliedOnUnit /\ Family(call.v) \in IrreversibleFamilies)
    => \E e \in Curves, t \in TGrid :
         Family(e) = Family(call.v) /\ Overshoots(apply(e, t).val)

\* C20, amended: forward outputs are not clamped: the Back and Elastic
\* families leave [0, 1] for t in [0, 1] (BackIn is negative on (0, 0.6],
\* BackOut above 1 on [0.4, 1), ElasticIn negative on [0.7, 0.85],
\* ElasticOut above 1 on [0.15, 0.3]); the Bounce family never does.
C20_BackAndElasticOvershoot ==
  AppliedOnUnit
    => /\ (call.v = "BackIn" /\ 0 < call.t /\ call.t <= 6 * Tenth)
            => (call.val < 0)
       /\ (call.v = "BackOut" /\ 4 * Tenth <= call.t /\ call.t < One)
            => (call.val > One)
       /\ (call.v = "ElasticIn" /\ 7 * Tenth <= call.t /\ call.t <= 17 * (Tenth \div 2))
            => (call.val < 0)
       /\ (call.v = "ElasticOut" /\ 3 * (Tenth \div 2) <= call.t /\ call.t <= 3 * Tenth)
            => (call.val > One)
       /\ (Family(call.v) = "Bounce") => ~Overshoots(call.val)

\* C20 witness: BackIn applied to 0.4 returned a negative value.
C20_Witness ==
  /\ AppliedOnUnit
  /\ call.v = "BackIn"
  /\ call.t = 4 * Tenth
  /\ call.val < 0

---------------------------------------------------------------------------
(* Injectivity, under SpecEval.                                            *)

\* Curve e turns on [0, 1]: some grid point lies strictly above, or
\* strictly below, both a grid point before it and one after it.  A curve
\* that turns takes the values next to the turn on both sides of it.
Turns(e) ==
  \E s, t, u \in TGrid :
    /\ s < t /\ t < u
    /\ LET fs == apply(e, s).val
           ft == apply(e, t).val
           fu == apply(e, u).val
       IN  \/ ft > fs + RoundingUlps /\ ft > fu + RoundingUlps
           \/ ft < fs - RoundingUlps /\ ft < fu - RoundingUlps

\* The second root of back_in, C1 / (C1 + 1).
BackInRoot == Div(Back_C1, Back_C3)

\* C21: the forward evaluator of every Back, Elastic and Bounce variant is
\* not injective on [0, 1]: the curve turns, and so takes some value
\* twice; BackIn is 0 both at 0 and at C1 / (C1 + 1).
C21_IrreversibleNotInjective ==
  (AppliedOnUnit /\ Family(call.v) \in IrreversibleFamilies)
    => /\ Turns(call.v)
       /\ (call.v = "BackIn" /\ call.t = 0)
            => /\ call.val = 0
               /\ 0 < BackInRoot /\ BackInRoot < One
               /\ Abs(apply("BackIn", BackInRoot).val) <= RoundingUlps

\* C21 witness: BackIn applied to 0 returned 0, and its second root lies
\* at 0.629846.
C21_Witness ==
  /\ AppliedOnUnit
  /\ call.v = "BackIn"
  /\ call.t = 0
  /\ call.val = 0
  /\ BackInRoot = 629846

---------------------------------------------------------------------------
(* The inverses of the irreversible families, under SpecEval.              *)

\* The nine inverse evaluators of the Back, Elastic and Bounce families.
IrreversibleInverses ==
  { "inverse_back_in", "inverse_back_out", "inverse_back_in_out",
    "inverse_elastic_in", "inverse_elastic_out", "inverse_elastic_in_out",
    "inverse_bounce_in", "inverse_bounce_out", "inverse_bounce_in_out" }

---------------------------------------------------------------------------
(* The wiring of the dispatch tables.                                      *)

\* The name the evaluator of a family and a phase carries in the source.
FamilyStem ==
  [Sine |-> "sine", Quad |-> "quad", Cubic |-> "cubic", Quart |-> "quart",
   Quint |-> "quint", Expo |-> "expo", Circ |-> "circ", Back |-> "back",
   Elastic |-> "elastic", Bounce |-> "bounce"]
PhaseSuffix == [In |-> "_in", Out |-> "_out", InOut |-> "_in_out"]
ForwardName(e) == FamilyStem[Family(e)] \o PhaseSuffix[Phase(e)]
InverseName(e) == "inverse_" \o ForwardName(e)

\* C24: for each of the 30 variants, apply_function gives the forward
\* evaluator of the variant's own family and phase and inverse_function the
\* inverse evaluator of its own family and phase, and apply(v, t) and
\* inverse(v, t) are exactly what that evaluator gives for t: the same
\* value, or the same failure.
C24_DispatchUncrossed ==
  (call.op \in { "apply", "inverse" } /\ call.v \in Curves)
    => LET f == IF call.op = "apply" THEN ForwardName(call.v)
                ELSE InverseName(call.v)
           r == CallFn(f, call.t)
           whole == IF call.op = "apply" THEN apply(call.v, call.t)
                    ELSE inverse(call.v, call.t)
       IN  /\ call.fn = f
           /\ call.status # "panicked" \/ call.stage = "invoke"
           /\ call.stage = "invoke"
                => /\ call.val = r.val
                   /\ (call.status = "returned") = r.ok
                   /\ whole = r
                   /\ whole.val = call.val

C24_Witness ==
  /\ Applied
  /\ call.v = "QuadOut"
  /\ call.fn = "quad_out"
  /\ call.t = One \div 4
  /\ call.val = 437500

---------------------------------------------------------------------------
(* The exhausted cursor, under Spec.                                       *)

\* The ordinals from 30 up that From can be handed.
PastTheEnd == 30..MaxOrdinal

\* C27: an exhausted cursor stays exhausted.  next() returns None only at
\* the sentinel, where From sends every ordinal from 30 up; from then on no
\* step moves the cursor or adds to what it yielded, and every next() on it
\* returns None.
C27_ExhaustedStaysExhausted ==
  /\ [](\A c \in CursorIds :
          /\ Exhausted(c) => (cursors[c].live /\ cursors[c].current = "Max")
          /\ (cursors[c].live /\ cursors[c].current = "Max")
               => /\ NextResult(cursors[c]) = [ret |-> None, cur |-> cursors[c]]
                  /\ \A n \in PastTheEnd : From(n) = cursors[c].current)
  /\ [][\A c \in CursorIds :
          (cursors[c].live /\ cursors[c].current = "Max")
            => /\ cursors'[c] = cursors[c]
               /\ yielded'[c] = yielded[c]
               /\ (last'.op = "next" /\ last'.cursor = c)
                    => (last'.ret = None /\ last'.before = "Max")]_vars

\* C27 witness: every cursor sits at the sentinel with 30 variants yielded,
\* and the last call was a next() that returned None.
C27_Witness ==
  /\ \A c \in CursorIds :
       cursors[c].live /\ cursors[c].current = "Max" /\ Len(yielded[c]) = 30
  /\ last.op = "next"
  /\ last.ret = None
  /\ last.before = "Max"

---------------------------------------------------------------------------
(* The point symmetry of the InOut variants.                               *)

\* The arguments at which elastic_in_out changes branch.
ElasticBreakpoints == { 450000, 550000 }

\* apply(InOut, 1 - t) = 1 - apply(InOut, t) for the call just made, up to
\* the rounding of the grid.
MirrorsItself ==
  LET m == apply(call.v, One - call.t)
  IN  m.ok /\ Abs(m.val - (One - call.val)) <= RoundingUlps

\* C28 as stated: every InOut variant is point-symmetric about (0.5, 0.5)
\* for every t in [0, 1], the breakpoints of ElasticInOut included.
C28_InOutSymmetricEverywhere ==
  (AppliedOnUnit /\ Phase(call.v) = "InOut") => MirrorsItself

\* C28, amended: every InOut variant is point-symmetric about (0.5, 0.5),
\* apply(InOut, 1 - t) = 1 - apply(InOut, t), for every t in [0, 1] except
\* that ElasticInOut is not at its breakpoints 0.45 and 0.55: 0.45 belongs
\* to the middle branch and its mirror 0.55 to the upper one, and the
\* branches do not meet there.  (In f64, 1.0 - 0.45 is 0.55 but 1.0 - 0.55
\* is just below 0.45, so only t = 0.45 is sure to break the symmetry.)
C28_InOutSymmetric ==
  (AppliedOnUnit /\ Phase(call.v) = "InOut")
    => IF call.v = "ElasticInOut" /\ call.t \in ElasticBreakpoints
       THEN call.t = 450000 => ~MirrorsItself
       ELSE MirrorsItself

\* C28 witness: ElasticInOut applied in its upper branch, at 0.6, where it
\* overshoots 1.0.
C28_Witness ==
  /\ AppliedOnUnit
  /\ call.v = "ElasticInOut"
  /\ call.t = 600000
  /\ call.val > One

---------------------------------------------------------------------------
(* Monotonicity and range of the reversible variants.                      *)

\* C29: the forward evaluator of each of the 21 reversible variants maps
\* [0, 1] into [0, 1] and never decreases on it: for 0 <= s <= t <= 1,
\* 0 <= apply(v, s) <= apply(v, t) <= 1, up to the rounding of the grid;
\* 0.0 goes to 0.0 and 1.0 to 1.0 exactly.
C29_ReversibleMonotone ==
  (AppliedOnUnit /\ Family(call.v) \in ReversibleFamilies)
    => /\ call.val >= 0 - RoundingUlps
       /\ call.val <= One + RoundingUlps
       /\ call.t = 0 => call.val = 0
       /\ call.t = One => call.val = One
       /\ \A s \in TGrid :
            s <= call.t
              => LET lo == apply(call.v, s)
                 IN  lo.ok /\ lo.val <= call.val + RoundingUlps

\* C29 witness: ExpoInOut applied just past its branch switch, at 0.55,
\* where it has risen above one half.
C29_Witness ==
  /\ AppliedOnUnit
  /\ call.v = "ExpoInOut"
  /\ call.t = 550000
  /\ call.val > Half
  /\ call.val < One

---------------------------------------------------------------------------
(* The RetainedImage in use: built once, its options set, its size asked   *)
(* for, and its texture asked for by the threads that share it.            *)

NextImage ==
  \/ \E image \in Images : FromColorImage(image)
  \/ \E options \in TextureOptions : WithOptions(options)
  \/ SizeCall
  \/ WidthCall
  \/ HeightCall
  \/ \E th \in Threads : TextureIdStep(th)

SpecImage == Init /\ [][NextImage]_vars

\* The RetainedImage shared: built, then only texture_id is called.
NextShared ==
  \/ \E image \in Images : FromColorImage(image)
  \/ \E th \in Threads : TextureIdStep(th)

SpecShared == Init /\ [][NextShared]_vars

---------------------------------------------------------------------------
(* Properties of the RetainedImage, under SpecImage.                       *)

\* The image the RetainedImage was built from: still stored, or in the hands
\* of the thread that took it, or in the first texture uploaded.
Constructed ==
  IF textures # << >> THEN textures[1].image
  ELSE IF \E th \in Threads : threads[th].pc = "taken"
       THEN threads[CHOOSE th \in Threads : threads[th].pc = "taken"].image
       ELSE retained.image

\* No thread is inside texture_id.
Quiet == \A th \in Threads : threads[th].pc = "idle"

\* C23: with_options on a RetainedImage whose texture was uploaded discards
\* the cached texture, the next texture_id uploads again with the updated
\* options, and the texture uploaded again holds the pixel data of the first
\* upload.
C23_ReuploadKeepsPixels ==
  /\ (shown.op = "with_options" /\ Quiet) => retained.texture = NoTexture
  /\ (retained.texture # NoTexture /\ Quiet)
       => /\ retained.texture = Len(textures)
          /\ textures[retained.texture].options = retained.options
  /\ \A k \in 1..Len(textures) :
       /\ textures[k].image.pixels = textures[1].image.pixels
       /\ textures[k].image.size = textures[1].image.size

\* C25: the texture is uploaded lazily and at most once.  Construction
\* loads nothing; load_texture is called only while no texture is cached,
\* one texture a call, and the texture it makes is the one cached; a cached
\* texture stays until with_options discards it; and every texture_id
\* returns the id cached when it returns, so calls with no with_options
\* between them return the same id, the later ones without loading.
C25_LazyAtMostOnce ==
  /\ [](/\ ~retained.built => (textures = << >> /\ retained.texture = NoTexture)
        /\ retained.texture # NoTexture => retained.texture = Len(textures)
        /\ \A th \in Threads :
             (threads[th].pc = "got" /\ ~threads[th].loaded)
               => threads[th].handle = retained.texture)
  /\ [][/\ (~retained.built /\ retained'.built)
             => (retained'.texture = NoTexture /\ textures' = << >>)
        /\ textures' # textures
             => /\ retained.texture = NoTexture
                /\ Len(textures') = Len(textures) + 1
                /\ \E th \in Threads :
                     threads[th].loaded /\ threads'[th].handle = Len(textures')
        /\ (retained.texture # NoTexture /\ retained'.texture # retained.texture)
             => (shown'.op = "with_options" /\ retained'.texture = NoTexture)
        /\ \A th \in Threads :
             (threads[th].pc = "got" /\ threads'[th].pc = "idle")
               => /\ shown'.op = "texture_id"
                  /\ shown'.thread = th
                  /\ shown'.id = retained.texture
                  /\ shown'.id # NoTexture
                  /\ shown'.loaded = threads[th].loaded
                  /\ retained'.texture = retained.texture
                  /\ textures' = textures]_vars

\* C25 witness: a texture_id has returned the id of the one texture there
\* is without having loaded it.
C25_Witness ==
  /\ Len(textures) = 1
  /\ retained.texture = 1
  /\ shown.op = "texture_id"
  /\ shown.id = 1
  /\ ~shown.loaded
  /\ threads[shown.thread].pc = "idle"

\* C26: once the texture has been loaded the stored ColorImage is the empty
\* default image, while size(), width() and height() go on reporting the
\* dimensions of the image given at construction.
C26_ImageClearedSizeKept ==
  /\ (retained.texture # NoTexture \/ textures # << >>)
       => /\ retained.image = EmptyImage
          /\ retained.image.size = <<0, 0>>
  /\ retained.built => retained.size = Constructed.size
  /\ shown.op = "size" => shown.dims = Constructed.size
  /\ shown.op = "width" => shown.n = Constructed.size[1]
  /\ shown.op = "height" => shown.n = Constructed.size[2]

\* C26 witness: width() reports 2 for an image built 2 wide and 1 high whose
\* texture is loaded and whose stored image is empty.
C26_Witness ==
  /\ shown.op = "width"
  /\ shown.n = 2
  /\ retained.texture # NoTexture
  /\ textures[1].image.size = <<2, 1>>
  /\ retained.image = EmptyImage
  /\ retained.size = <<2, 1>>

---------------------------------------------------------------------------
(* Properties of the shared RetainedImage, under SpecShared.               *)

\* Thread th waits for a lock another thread holds.
Blocked(th) ==
  \/ threads[th].pc = "want_texture" /\ locks.texture # NoThread
  \/ threads[th].pc = "want_image" /\ locks.image # NoThread

\* C30: concurrent texture_id calls on one RetainedImage never deadlock and
\* load one texture between them.  The image lock is asked for and held only
\* by the thread holding the texture lock; whenever a thread is inside
\* texture_id, some thread inside it can take a step; load_texture has been
\* called at most once, exactly once when a call has returned; and every
\* call that returned gave the id of that one texture.
C30_SharedLoadsOnce ==
  /\ \A th \in Threads :
       /\ threads[th].pc \in { "want_image", "have_image", "taken", "loaded" }
            => locks.texture = th
       /\ threads[th].pc \in { "have_image", "taken", "loaded" }
            <=> locks.image = th
  /\ shown.op = "texture_id"
       => /\ Len(textures) = 1
          /\ shown.id = 1
          /\ shown.id = retained.texture
  /\ locks.image # NoThread => locks.texture = locks.image
  /\ Len(textures) <= 1
  /\ (\E th \in Threads : threads[th].pc # "idle")
       => \E th \in Threads : threads[th].pc # "idle" /\ ~Blocked(th)

\* C30 witness: a texture_id has returned the id of the one texture without
\* having loaded it, and a call is waiting for the texture lock while a call
\* on another thread holds it.
C30_Witness ==
  /\ shown.op = "texture_id"
  /\ shown.id = 1
  /\ ~shown.loaded
  /\ Len(textures) = 1
  /\ \E a, b \in Threads :
       /\ a # b
       /\ threads[a].pc = "have_texture"
       /\ threads[b].pc = "want_texture"
       /\ Blocked(b)

====
